---- MODULE Spec2Model ----
(***************************************************************************)
(* State-machine model of the morpheusvm Controller (the node-local        *)
(* lifecycle adapter): Initialize, Rules, StateManager, Accepted and        *)
(* Shutdown, together with the host-side state they touch (log level,       *)
(* metrics gatherer, storage handles, durable key-value storage).           *)
(*                                                                         *)
(* The host thread runs Initialize and Accepted statement by statement     *)
(* (variable pc); Rules may be called by another goroutine at any point.   *)
(***************************************************************************)
EXTENDS Integers, Sequences, FiniteSets, TLC

\* A nil pointer / nil interface / nil error.
Nil == [nil |-> TRUE]

-----------------------------------------------------------------------------
(* Bounds of the model *)

\* longest transaction list (and result list) of a block
MaxTxs == 2
\* Accepted is only started while the transfer counter is below this cap
MaxTransfer == 2

-----------------------------------------------------------------------------
(* Helpers *)

SeqsUpTo(S, n) == UNION { [1..k -> S] : k \in 0..n }

RECURSIVE IsInjective(_)
IsInjective(s) ==
    IF Len(s) <= 1 THEN TRUE
    ELSE /\ \A k \in 2..Len(s) : s[k] # s[1]
         /\ IsInjective(Tail(s))

Err(m) == [msg |-> m, wraps |-> ""]
\* fmt.Errorf("<prefix>: %w", e)
Errorf(prefix, e) == [msg |-> prefix, wraps |-> e.msg]

-----------------------------------------------------------------------------
(* Input domains *)

TxIDs == {"t1", "t2"}
Timestamps == {7}
\* arguments of Rules
RuleTimes == {1000, 2000}

\* Action kinds carried by a transaction: actions.Transfer and anything else.
ActionLists == { <<"Other">>, <<"Transfer">>, <<"Transfer", "Other", "Transfer">> }

\* chain.Result values (Success, Units, Fee)
Results == { [Success |-> TRUE,  Units |-> 5, Fee |-> 10],
             [Success |-> FALSE, Units |-> 0, Fee |-> 0] }

\* Raw configuration bytes: malformed, or a JSON object naming the options set.
ConfigBytes == { [ok |-> FALSE, opts |-> {}] }
               \cup { [ok |-> TRUE, opts |-> o] : o \in SUBSET {"testMode", "storeTransactions"} }

\* Raw genesis and upgrade bytes.
GenesisBytes == { [ok |-> FALSE, id |-> "bad"], [ok |-> TRUE, id |-> "gA"] }
UpgradeBytes == { [ok |-> FALSE], [ok |-> TRUE] }

\* Transactions (id and action list) and the blocks handed to Accepted.  The
\* transactions of one block carry pairwise distinct ids; the result list is
\* whatever blk.Results() holds, of any length up to MaxTxs.
Txs == [id : TxIDs, Actions : ActionLists]
TxLists == { s \in SeqsUpTo(Txs, MaxTxs) : IsInjective([k \in 1..Len(s) |-> s[k].id]) }
Blocks == [Txs : TxLists, results : SeqsUpTo(Results, MaxTxs), Tmstmp : Timestamps]

\* snow.Context values handed in by the host.
SnowCtxs == { [NetworkID |-> 1, ChainID |-> 2, ChainDataDir |-> "chainData"] }

Inner == [vm |-> "inner"]

-----------------------------------------------------------------------------
VARIABLES
    pc,        \* position of the host thread: "idle", inside a call, at its "return",
               \* or "panicked" (the process is gone)
    c,         \* the Controller's fields
    host,      \* host-side state: log level, gatherer registrations, open handles
    registry,  \* package variables consts.ActionRegistry / consts.AuthRegistry
    storage,   \* durable key-value contents behind the database handle
    batch,     \* writes staged in the database batch of the running Accepted
    i,         \* loop index of the running Accepted (1-based)
    args,      \* arguments of the running host-thread call
    ret,       \* return value of the call that is at its "return"
    rulesRet,  \* result of the Rules call, when the last step was one
    old,       \* Controller fields, host state and storage when the running call began
    trace,     \* external operations attempted by the running call, in order
    apis,      \* the handler map being assembled by the running Initialize
    ready      \* the last Initialize returned without error

vars == <<pc, c, host, registry, storage, batch, i, args, ret, rulesRet, old,
          trace, apis, ready>>

-----------------------------------------------------------------------------
(* Collaborators called by the Controller *)

\* config.New(configBytes): parse the raw bytes into a Config.
ConfigNew(b) ==
    IF b.ok
    THEN [cfg |-> [LogLevel |-> "debug",
                   TestMode |-> "testMode" \in b.opts,
                   StoreTransactions |-> "storeTransactions" \in b.opts],
          err |-> Nil]
    ELSE [cfg |-> Nil, err |-> Err("ConfigError")]

\* genesis.New(genesisBytes, upgradeBytes): parse into a genesis snapshot.
GenesisNew(g, u) ==
    IF g.ok /\ u.ok
    THEN [genesis |-> [id |-> g.id], err |-> Nil]
    ELSE [genesis |-> Nil, err |-> Err("GenesisError")]

\* (*Genesis).Rules(t, networkID, chainID): the rule set valid at time t.
GenesisRules(g, t, networkID, chainID) ==
    [genesis |-> g, NetworkID |-> networkID, ChainID |-> chainID]

\* builder.NewManual / builder.NewTime / gossiper.NewManual / gossiper.NewProposer
NewManualBuilder(inner) == [builder |-> "Manual", vm |-> inner]
NewTimeBuilder(inner) == [builder |-> "Time", vm |-> inner]
NewManualGossiper(inner) == [gossiper |-> "Manual", vm |-> inner]
NewProposerGossiper(inner) == [gossiper |-> "Proposer", vm |-> inner, cfg |-> "DefaultProposerConfig"]

\* auth.Engines()
AuthEngines == [engines |-> "auth.Engines"]

-----------------------------------------------------------------------------
(* Initial state: a freshly constructed Controller (vm.New(&Controller{}))  *)

Init ==
    /\ pc = "idle"
    /\ c = [inner |-> Nil, snowCtx |-> Nil, genesis |-> Nil, config |-> Nil,
            stateManager |-> Nil, metrics |-> Nil, db |-> Nil]
    /\ host = [logLevel |-> "info", gatherer |-> {}, handles |-> {}]
    /\ registry = [ActionRegistry |-> [registry |-> "Action"],
                   AuthRegistry |-> [registry |-> "Auth"]]
    /\ storage = [id \in TxIDs |-> Nil]
    /\ batch = << >>
    /\ i = 0
    /\ args = Nil
    /\ ret = Nil
    /\ rulesRet = Nil
    /\ old = Nil
    /\ trace = << >>
    /\ apis = Nil
    /\ ready = FALSE

-----------------------------------------------------------------------------
(* Controller.Initialize *)

\* Faulty variant: an error path that hands back the genesis it already holds.
InitializeFailPartial(err) ==
    [op |-> "Initialize", out |-> <<c.genesis, Nil, Nil, Nil, Nil, Nil, Nil>>, err |-> err]

\* "return nil, nil, nil, nil, nil, nil, nil, err"
InitializeFail(err) ==
    [op |-> "Initialize", out |-> <<Nil, Nil, Nil, Nil, Nil, Nil, Nil>>, err |-> err]

\* "return c.genesis, build, gossip, apis, consts.ActionRegistry,
\*  consts.AuthRegistry, auth.Engines(), nil"
InitializeOk(build, gossip) ==
    [op |-> "Initialize",
     out |-> <<c.genesis, build, gossip, apis, registry.ActionRegistry,
               registry.AuthRegistry, AuthEngines>>,
     err |-> Nil]

\* Faulty variant: the production branch keeps the manual gossiper.
ModeSelectorMixed(testMode, inner) ==
    IF testMode
    THEN [build |-> NewManualBuilder(inner), gossip |-> NewManualGossiper(inner)]
    ELSE [build |-> NewTimeBuilder(inner), gossip |-> NewManualGossiper(inner)]

\* The builder/gossiper pair chosen by "if c.config.TestMode { ... } else { ... }"
\* (the proposer gossiper is the only one whose construction can fail).
ModeSelector(testMode, inner) ==
    IF testMode
    THEN [build |-> NewManualBuilder(inner), gossip |-> NewManualGossiper(inner)]
    ELSE [build |-> NewTimeBuilder(inner), gossip |-> NewProposerGossiper(inner)]

\* Entry: c.inner = inner; c.snowCtx = snowCtx; c.stateManager = &StateManager{}
InitializeCall(inner, snowCtx, genesisBytes, upgradeBytes, configBytes) ==
    /\ pc = "idle"
    /\ args' = [op |-> "Initialize", inner |-> inner, snowCtx |-> snowCtx,
                genesisBytes |-> genesisBytes, upgradeBytes |-> upgradeBytes,
                configBytes |-> configBytes]
    /\ old' = [c |-> c, host |-> host, storage |-> storage]
    /\ c' = [c EXCEPT !.inner = inner, !.snowCtx = snowCtx,
                      !.stateManager = [type |-> "StateManager"]]
    /\ ret' = Nil
    /\ trace' = << >>
    /\ apis' = Nil
    /\ ready' = FALSE
    /\ pc' = "init_metrics"
    /\ rulesRet' = Nil
    /\ UNCHANGED <<host, registry, storage, batch, i>>

\* c.metrics, err = newMetrics(gatherer)
InitMetrics ==
    /\ pc = "init_metrics"
    /\ trace' = Append(trace, "newMetrics")
    /\ \/ /\ c' = [c EXCEPT !.metrics = [transfer |-> 0]]
          /\ host' = [host EXCEPT !.gatherer = @ \cup {"morpheusvm"}]
          /\ pc' = "init_config"
          /\ UNCHANGED ret
       \/ /\ \E m \in {Nil, [transfer |-> 0]} : c' = [c EXCEPT !.metrics = m]
          /\ ret' = InitializeFail(Err("MetricsError"))
          /\ pc' = "return"
          /\ UNCHANGED host
    /\ rulesRet' = Nil
    /\ UNCHANGED <<registry, storage, batch, i, args, old, apis, ready>>

\* Faulty variant: the log level is applied before the parse error is looked at.
InitConfigLevelFirst ==
    /\ pc = "init_config"
    /\ LET r == ConfigNew(args.configBytes) IN
       /\ c' = [c EXCEPT !.config = r.cfg]
       /\ host' = [host EXCEPT !.logLevel = "debug"]
       /\ trace' = trace \o <<"config.New", "SetLevel">>
       /\ IF r.err # Nil
          THEN /\ ret' = InitializeFail(r.err)
               /\ pc' = "return"
          ELSE /\ pc' = "init_genesis"
               /\ UNCHANGED ret
    /\ rulesRet' = Nil
    /\ UNCHANGED <<registry, storage, batch, i, args, old, apis, ready>>

\* Faulty variant: the database is opened as soon as the configuration is parsed.
InitConfigOpensStorage ==
    /\ pc = "init_config"
    /\ LET r == ConfigNew(args.configBytes) IN
       IF r.err # Nil
       THEN /\ c' = [c EXCEPT !.config = r.cfg]
            /\ ret' = InitializeFail(r.err)
            /\ trace' = Append(trace, "config.New")
            /\ pc' = "return"
            /\ UNCHANGED host
       ELSE /\ c' = [c EXCEPT !.config = r.cfg,
                              !.db = [dir |-> args.snowCtx.ChainDataDir, name |-> "db"]]
            /\ host' = [host EXCEPT !.logLevel = r.cfg.LogLevel,
                                    !.handles = @ \cup {args.snowCtx.ChainDataDir}]
            /\ trace' = trace \o <<"config.New", "hstorage.New", "SetLevel">>
            /\ pc' = "init_genesis"
            /\ UNCHANGED ret
    /\ rulesRet' = Nil
    /\ UNCHANGED <<registry, storage, batch, i, args, old, apis, ready>>

\* c.config, err = config.New(configBytes); c.snowCtx.Log.SetLevel(c.config.LogLevel)
InitConfig ==
    /\ pc = "init_config"
    /\ LET r == ConfigNew(args.configBytes) IN
       /\ c' = [c EXCEPT !.config = r.cfg]
       /\ IF r.err # Nil
          THEN /\ ret' = InitializeFail(r.err)
               /\ trace' = Append(trace, "config.New")
               /\ pc' = "return"
               /\ UNCHANGED host
          ELSE /\ host' = [host EXCEPT !.logLevel = r.cfg.LogLevel]
               /\ trace' = trace \o <<"config.New", "SetLevel">>
               /\ pc' = "init_genesis"
               /\ UNCHANGED ret
    /\ rulesRet' = Nil
    /\ UNCHANGED <<registry, storage, batch, i, args, old, apis, ready>>

\* Faulty variant: the error of genesis.New is dropped and startup goes on.
InitGenesisIgnoreErr ==
    /\ pc = "init_genesis"
    /\ trace' = Append(trace, "genesis.New")
    /\ c' = [c EXCEPT !.genesis = GenesisNew(args.genesisBytes, args.upgradeBytes).genesis]
    /\ pc' = "init_storage"
    /\ rulesRet' = Nil
    /\ UNCHANGED <<host, registry, storage, batch, i, args, ret, old, apis, ready>>

\* c.genesis, err = genesis.New(genesisBytes, upgradeBytes)
InitGenesis ==
    /\ pc = "init_genesis"
    /\ trace' = Append(trace, "genesis.New")
    /\ LET r == GenesisNew(args.genesisBytes, args.upgradeBytes) IN
       /\ c' = [c EXCEPT !.genesis = r.genesis]
       /\ IF r.err # Nil
          THEN /\ ret' = InitializeFail(Errorf("unable to read genesis", r.err))
               /\ pc' = "return"
          ELSE /\ pc' = "init_storage"
               /\ UNCHANGED ret
    /\ rulesRet' = Nil
    /\ UNCHANGED <<host, registry, storage, batch, i, args, old, apis, ready>>

\* c.db, err = hstorage.New(pebble.NewDefaultConfig(), snowCtx.ChainDataDir, "db", gatherer)
InitStorage ==
    /\ pc = "init_storage"
    /\ trace' = Append(trace, "hstorage.New")
    /\ \/ /\ c' = [c EXCEPT !.db = [dir |-> args.snowCtx.ChainDataDir, name |-> "db"]]
          /\ host' = [host EXCEPT !.handles = @ \cup {args.snowCtx.ChainDataDir}, !.gatherer = @ \cup {"db"}]
          /\ pc' = "init_handlers"
          /\ UNCHANGED ret
       \/ /\ c' = [c EXCEPT !.db = Nil]
          /\ ret' = InitializeFail(Err("StorageOpenError"))
          /\ pc' = "return"
          /\ UNCHANGED host
    /\ rulesRet' = Nil
    /\ UNCHANGED <<registry, storage, batch, i, args, old, apis, ready>>

\* apis := map[string]http.Handler{}; jsonRPCHandler, err := hrpc.NewJSONRPCHandler(...)
\* apis[rpc.JSONRPCEndpoint] = jsonRPCHandler
InitHandlers ==
    /\ pc = "init_handlers"
    /\ trace' = Append(trace, "NewJSONRPCHandler")
    /\ \/ /\ apis' = [JSONRPCEndpoint |-> "jsonRPCHandler"]
          /\ pc' = "init_mode"
          /\ UNCHANGED ret
       \/ /\ apis' = [empty |-> TRUE]
          /\ ret' = InitializeFail(Err("HandlerRegistrationError"))
          /\ pc' = "return"
    /\ rulesRet' = Nil
    /\ UNCHANGED <<c, host, registry, storage, batch, i, args, old, ready>>

\* Faulty variant: a failed gossiper creation closes and drops the database.
InitModeCleanup ==
    /\ pc = "init_mode"
    /\ LET m == ModeSelector(c.config.TestMode, args.inner) IN
       \/ /\ trace' = trace \o (IF c.config.TestMode
                                 THEN <<"NewManual", "NewManual">>
                                 ELSE <<"NewTime", "NewProposer">>)
          /\ ret' = InitializeOk(m.build, m.gossip)
          /\ ready' = TRUE
          /\ UNCHANGED <<c, host>>
       \/ /\ ~c.config.TestMode
          /\ trace' = trace \o <<"NewTime", "NewProposer">>
          /\ ret' = InitializeFail(Err("ProposerError"))
          /\ c' = [c EXCEPT !.db = Nil]
          /\ host' = [host EXCEPT !.handles = @ \ {args.snowCtx.ChainDataDir}]
          /\ UNCHANGED ready
    /\ pc' = "return"
    /\ rulesRet' = Nil
    /\ UNCHANGED <<registry, storage, batch, i, args, old, apis>>

\* Create builder and gossiper, then return the full tuple.
InitMode ==
    /\ pc = "init_mode"
    /\ LET m == ModeSelector(c.config.TestMode, args.inner) IN
       \/ /\ trace' = trace \o (IF c.config.TestMode
                                 THEN <<"NewManual", "NewManual">>
                                 ELSE <<"NewTime", "NewProposer">>)
          /\ ret' = InitializeOk(m.build, m.gossip)
          /\ ready' = TRUE
       \/ /\ ~c.config.TestMode
          /\ trace' = trace \o <<"NewTime", "NewProposer">>
          /\ ret' = InitializeFail(Err("ProposerError"))
          /\ UNCHANGED ready
    /\ pc' = "return"
    /\ rulesRet' = Nil
    /\ UNCHANGED <<c, host, registry, storage, batch, i, args, old, apis>>

-----------------------------------------------------------------------------
(* Controller.Rules and Controller.StateManager *)

\* Faulty variant: the two identifiers are passed in the wrong order.
RulesOfSwapped(t) ==
    IF c.snowCtx = Nil
    THEN [panic |-> TRUE, rules |-> Nil]
    ELSE [panic |-> FALSE,
          rules |-> GenesisRules(c.genesis, t, c.snowCtx.ChainID, c.snowCtx.NetworkID)]

\* return c.genesis.Rules(t, c.snowCtx.NetworkID, c.snowCtx.ChainID)
\* (a nil c.snowCtx is dereferenced: the call panics)
RulesOf(t) ==
    IF c.snowCtx = Nil
    THEN [panic |-> TRUE, rules |-> Nil]
    ELSE [panic |-> FALSE,
          rules |-> GenesisRules(c.genesis, t, c.snowCtx.NetworkID, c.snowCtx.ChainID)]

\* A call from any goroutine, at any point of the host thread's progress.
Rules(t) ==
    /\ pc # "panicked"
    /\ rulesRet' = RulesOf(t)
    /\ pc' = IF RulesOf(t).panic THEN "panicked" ELSE pc
    /\ UNCHANGED <<c, host, registry, storage, batch, i, args, ret, old,
                   trace, apis, ready>>

\* return c.stateManager
StateManager ==
    /\ pc = "idle"
    /\ args' = [op |-> "StateManager"]
    /\ old' = [c |-> c, host |-> host, storage |-> storage]
    /\ trace' = << >>
    /\ ret' = [op |-> "StateManager", out |-> c.stateManager, err |-> Nil]
    /\ pc' = "return"
    /\ rulesRet' = Nil
    /\ UNCHANGED <<c, host, registry, storage, batch, i, apis, ready>>

-----------------------------------------------------------------------------
(* Controller.Accepted *)

\* storage.StoreTransaction(ctx, batch, id, t, success, units, fee): stage one
\* put of the archival record under the transaction id.
StoreTransaction(b, id, t, success, units, fee) ==
    Append(b, [key |-> id,
               value |-> [Timestamp |-> t, Success |-> success,
                          Units |-> units, Fee |-> fee]])

\* batch.Write(): apply every staged put, in order, as one atomic write.
RECURSIVE BatchWrite(_, _)
BatchWrite(st, b) ==
    IF b = << >> THEN st
    ELSE BatchWrite([st EXCEPT ![Head(b).key] = Head(b).value], Tail(b))

\* Faulty variant: every action is counted, whatever its kind.
TransferAll(actions) == Len(actions)

\* Faulty variant: a transaction is counted once, however many transfers it has.
TransferOnce(actions) ==
    IF \E k \in 1..Len(actions) : actions[k] = "Transfer" THEN 1 ELSE 0

\* "for _, action := range tx.Actions { switch action.(type) {
\*      case *actions.Transfer: c.metrics.transfer.Inc() } }"
RECURSIVE TransferIncs(_)
TransferIncs(actions) ==
    IF actions = << >> THEN 0
    ELSE (IF Head(actions) = "Transfer" THEN 1 ELSE 0) + TransferIncs(Tail(actions))

\* Faulty variant: units and fee change places in the staging call.
StageSwapped(b, blk, k) ==
    StoreTransaction(b, blk.Txs[k].id, blk.Tmstmp,
                     blk.results[k].Success, blk.results[k].Fee, blk.results[k].Units)

\* Faulty variant: every record is staged under the id of the first transaction.
StageFirstKey(b, blk, k) ==
    StoreTransaction(b, blk.Txs[1].id, blk.Tmstmp,
                     blk.results[k].Success, blk.results[k].Units, blk.results[k].Fee)

\* The staging call of iteration k:
\* "storage.StoreTransaction(ctx, batch, tx.ID(), blk.GetTimestamp(),
\*                           result.Success, result.Units, result.Fee)"
Stage(b, blk, k) ==
    StoreTransaction(b, blk.Txs[k].id, blk.Tmstmp,
                     blk.results[k].Success, blk.results[k].Units, blk.results[k].Fee)

\* Faulty variant: "defer batch.Write()", the staged puts are flushed on the way out.
DeferWrite(st, b) == [storage |-> BatchWrite(st, b), batch |-> << >>]

\* Faulty variant: the deferred call is missing, the staged puts stay in the batch.
DeferKeep(st, b) == [storage |-> st, batch |-> b]

\* "defer batch.Reset()": what the deferred call leaves of storage and batch
DeferReset(st, b) == [storage |-> st, batch |-> << >>]

AcceptedRet(err, panic) == [op |-> "Accepted", err |-> err, panic |-> panic]

\* batch := c.db.NewBatch(); defer batch.Reset(); results := blk.Results()
AcceptedCall(blk) ==
    /\ pc = "idle"
    /\ ready
    /\ c.metrics.transfer < MaxTransfer
    /\ args' = [op |-> "Accepted", blk |-> blk]
    /\ old' = [c |-> c, host |-> host, storage |-> storage]
    /\ ret' = Nil
    /\ trace' = <<"NewBatch">>
    /\ batch' = << >>
    /\ i' = 1
    /\ pc' = "acc_loop"
    /\ rulesRet' = Nil
    /\ UNCHANGED <<c, host, registry, storage, apis, ready>>

\* Faulty variant: the transfers of a transaction are counted before it is staged.
AcceptedTxCountFirst ==
    /\ pc = "acc_loop"
    /\ i <= Len(args.blk.Txs)
    /\ LET blk == args.blk
           tx == blk.Txs[i]
       IN
       IF i > Len(blk.results)
       THEN /\ ret' = AcceptedRet(Nil, TRUE)
            /\ pc' = "acc_defer"
            /\ UNCHANGED <<c, i, batch, trace>>
       ELSE LET result == blk.results[i]
                incs == IF result.Success THEN TransferIncs(tx.Actions) ELSE 0
                counted == [c EXCEPT !.metrics.transfer = @ + incs]
            IN
            /\ c' = counted
            /\ IF c.config.StoreTransactions
               THEN \/ /\ batch' = Stage(batch, blk, i)
                       /\ trace' = Append(trace, "StoreTransaction")
                       /\ i' = i + 1
                       /\ UNCHANGED <<pc, ret>>
                    \/ /\ ret' = AcceptedRet(Err("StageError"), FALSE)
                       /\ trace' = Append(trace, "StoreTransaction")
                       /\ pc' = "acc_defer"
                       /\ UNCHANGED <<i, batch>>
               ELSE /\ i' = i + 1
                    /\ UNCHANGED <<pc, ret, trace, batch>>
    /\ rulesRet' = Nil
    /\ UNCHANGED <<host, registry, storage, args, old, apis, ready>>

\* One iteration of "for i, tx := range blk.Txs".
AcceptedTx ==
    /\ pc = "acc_loop"
    /\ i <= Len(args.blk.Txs)
    /\ LET blk == args.blk
           tx == blk.Txs[i]
       IN
       IF i > Len(blk.results)
       THEN \* results[i]: index out of range, the call panics
            /\ ret' = AcceptedRet(Nil, TRUE)
            /\ pc' = "acc_defer"
            /\ UNCHANGED <<c, i, batch, trace>>
       ELSE LET result == blk.results[i]
                incs == IF result.Success THEN TransferIncs(tx.Actions) ELSE 0
                counted == [c EXCEPT !.metrics.transfer = @ + incs]
            IN
            IF c.config.StoreTransactions
            THEN \/ /\ batch' = Stage(batch, blk, i)
                    /\ trace' = Append(trace, "StoreTransaction")
                    /\ c' = counted
                    /\ i' = i + 1
                    /\ UNCHANGED <<pc, ret>>
                 \/ /\ ret' = AcceptedRet(Err("StageError"), FALSE)
                    /\ trace' = Append(trace, "StoreTransaction")
                    /\ pc' = "acc_defer"
                    /\ UNCHANGED <<c, i, batch>>
            ELSE /\ c' = counted
                 /\ i' = i + 1
                 /\ UNCHANGED <<pc, ret, trace, batch>>
    /\ rulesRet' = Nil
    /\ UNCHANGED <<host, registry, storage, args, old, apis, ready>>

\* Faulty variant: a failed commit is tried a second time.
AcceptedWriteRetry ==
    /\ pc = "acc_loop"
    /\ i > Len(args.blk.Txs)
    /\ \/ /\ storage' = BatchWrite(storage, batch)
          /\ ret' = AcceptedRet(Nil, FALSE)
          /\ trace' = Append(trace, "Write")
       \/ /\ storage' = BatchWrite(storage, batch)
          /\ ret' = AcceptedRet(Nil, FALSE)
          /\ trace' = trace \o <<"Write", "Write">>
       \/ /\ ret' = AcceptedRet(Err("CommitError"), FALSE)
          /\ trace' = trace \o <<"Write", "Write">>
          /\ UNCHANGED storage
    /\ pc' = "acc_defer"
    /\ rulesRet' = Nil
    /\ UNCHANGED <<c, host, registry, batch, i, args, old, apis, ready>>

\* return batch.Write()
AcceptedWrite ==
    /\ pc = "acc_loop"
    /\ i > Len(args.blk.Txs)
    /\ \/ /\ storage' = BatchWrite(storage, batch)
          /\ ret' = AcceptedRet(Nil, FALSE)
       \/ /\ ret' = AcceptedRet(Err("CommitError"), FALSE)
          /\ UNCHANGED storage
    /\ trace' = Append(trace, "Write")
    /\ pc' = "acc_defer"
    /\ rulesRet' = Nil
    /\ UNCHANGED <<c, host, registry, batch, i, args, old, apis, ready>>

\* defer batch.Reset(): runs on every way out of Accepted
AcceptedDefer ==
    /\ pc = "acc_defer"
    /\ storage' = DeferReset(storage, batch).storage
    /\ batch' = DeferReset(storage, batch).batch
    /\ trace' = Append(trace, "Reset")
    /\ pc' = IF ret.panic THEN "panicked" ELSE "return"
    /\ rulesRet' = Nil
    /\ UNCHANGED <<c, host, registry, i, args, ret, old, apis, ready>>

-----------------------------------------------------------------------------
(* Controller.Shutdown *)

\* Faulty variant: Shutdown closes the database it was given.
ShutdownClose ==
    /\ pc = "idle"
    /\ args' = [op |-> "Shutdown"]
    /\ old' = [c |-> c, host |-> host, storage |-> storage]
    /\ trace' = << >>
    /\ ret' = [op |-> "Shutdown", err |-> Nil]
    /\ host' = [host EXCEPT !.handles = {}]
    /\ pc' = "return"
    /\ rulesRet' = Nil
    /\ UNCHANGED <<c, registry, storage, batch, i, apis, ready>>

\* Faulty variant: Shutdown leaves the Controller in the other mode.
ShutdownFlipsMode ==
    /\ pc = "idle"
    /\ args' = [op |-> "Shutdown"]
    /\ old' = [c |-> c, host |-> host, storage |-> storage]
    /\ trace' = << >>
    /\ ret' = [op |-> "Shutdown", err |-> Nil]
    /\ c' = IF c.config = Nil THEN c ELSE [c EXCEPT !.config.TestMode = ~@]
    /\ pc' = "return"
    /\ rulesRet' = Nil
    /\ UNCHANGED <<host, registry, storage, batch, i, apis, ready>>

\* return nil
Shutdown ==
    /\ pc = "idle"
    /\ args' = [op |-> "Shutdown"]
    /\ old' = [c |-> c, host |-> host, storage |-> storage]
    /\ trace' = << >>
    /\ ret' = [op |-> "Shutdown", err |-> Nil]
    /\ pc' = "return"
    /\ rulesRet' = Nil
    /\ UNCHANGED <<c, host, registry, storage, batch, i, apis, ready>>

-----------------------------------------------------------------------------
(* The call is over: the host has the result, the frame of the call is gone *)

Return ==
    /\ pc = "return"
    /\ pc' = "idle"
    /\ args' = Nil
    /\ ret' = Nil
    /\ old' = Nil
    /\ trace' = << >>
    /\ apis' = Nil
    /\ i' = 0
    /\ rulesRet' = Nil
    /\ UNCHANGED <<c, host, registry, storage, batch, ready>>

-----------------------------------------------------------------------------
Next ==
    \/ \E snowCtx \in SnowCtxs, g \in GenesisBytes, u \in UpgradeBytes, b \in ConfigBytes :
          InitializeCall(Inner, snowCtx, g, u, b)
    \/ InitMetrics
    \/ InitConfig
    \/ InitGenesis
    \/ InitStorage
    \/ InitHandlers
    \/ InitMode
    \/ \E t \in RuleTimes : Rules(t)
    \/ StateManager
    \/ \E blk \in Blocks : AcceptedCall(blk)
    \/ AcceptedTx
    \/ AcceptedWrite
    \/ AcceptedDefer
    \/ Shutdown
    \/ Return

Spec == Init /\ [][Next]_vars

-----------------------------------------------------------------------------
(* Vocabulary of the properties *)

Range(s) == { s[k] : k \in 1..Len(s) }

Returned(op) == pc = "return" /\ args.op = op

\* Accepted returned nil.
AcceptedOk == Returned("Accepted") /\ ret.err = Nil

BlockIds(blk) == { blk.Txs[k].id : k \in 1..Len(blk.Txs) }

\* The archival record of the transaction at index k of blk.
RecordOf(blk, k) ==
    [Timestamp |-> blk.Tmstmp, Success |-> blk.results[k].Success,
     Units |-> blk.results[k].Units, Fee |-> blk.results[k].Fee]

Stored(st) == { id \in TxIDs : st[id] # Nil }

-----------------------------------------------------------------------------
\* C1: after Accepted(B) returns nil for a block with N transactions and N
\* results: with StoreTransactions on, the call has written exactly the N
\* records keyed by B's transaction ids, each holding the block timestamp and
\* the success, units and fee of the result at the same index (N more records
\* than before when none of the ids was stored), every other key is as it
\* was; with StoreTransactions off, storage is as it was.
C1_ArchivalRecords ==
    (AcceptedOk /\ Len(args.blk.results) = Len(args.blk.Txs)) =>
        LET blk == args.blk
            N == Len(blk.Txs)
        IN  IF c.config.StoreTransactions
            THEN /\ \A k \in 1..N : storage[blk.Txs[k].id] = RecordOf(blk, k)
                 /\ Cardinality(BlockIds(blk)) = N
                 /\ \A id \in TxIDs \ BlockIds(blk) : storage[id] = old.storage[id]
                 /\ (BlockIds(blk) \cap Stored(old.storage) = {}) =>
                        Cardinality(Stored(storage)) = Cardinality(Stored(old.storage)) + N
            ELSE storage = old.storage

C1_Witness ==
    /\ AcceptedOk
    /\ Len(args.blk.Txs) = 2 /\ Len(args.blk.results) = 2
    /\ args.blk.results[1] # args.blk.results[2]
    /\ c.config.StoreTransactions
    /\ Stored(old.storage) = {}
    /\ Cardinality(Stored(storage)) = 2

\* C2: Accepted is atomic on storage.  While a call runs storage is as it was
\* when the call began, and it still is when the call returns an error
\* (staging failed at some index, or the commit failed): none of B's records,
\* in particular none staged before the failing index, is in storage.  Only a
\* call that returns nil changes storage.
C2_Atomic ==
    (args # Nil /\ args.op = "Accepted") =>
        \/ storage = old.storage
        \/ ret # Nil /\ ret.err = Nil /\ ~ret.panic

C2_Witness ==
    /\ Returned("Accepted")
    /\ ret.err = Err("StageError")
    /\ i = 2
    /\ old.storage[args.blk.Txs[1].id] # RecordOf(args.blk, 1)
    /\ storage = old.storage

\* C3: Initialize returns either all seven outputs populated with a nil error
\* or all seven outputs nil with a non-nil error.
C3_AllOrNothing ==
    Returned("Initialize") =>
        \/ ret.err = Nil /\ \A k \in 1..7 : ret.out[k] # Nil
        \/ ret.err # Nil /\ \A k \in 1..7 : ret.out[k] = Nil

C3_Witness ==
    /\ Returned("Initialize")
    /\ ret.err = Err("ProposerError")
    /\ c.genesis # Nil /\ c.db # Nil /\ apis # Nil

\* C4: a successful Initialize returns the manual builder with the manual
\* gossiper when the parsed configuration has TestMode set, and the time
\* builder with the proposer gossiper when it has not.
C4_ModeSelection ==
    (Returned("Initialize") /\ ret.err = Nil) =>
        IF "testMode" \in args.configBytes.opts
        THEN ret.out[2].builder = "Manual" /\ ret.out[3].gossiper = "Manual"
        ELSE ret.out[2].builder = "Time" /\ ret.out[3].gossiper = "Proposer"

C4_Witness ==
    /\ Returned("Initialize") /\ ret.err = Nil
    /\ "testMode" \notin args.configBytes.opts
    /\ ret.out[3].gossiper = "Proposer"

\* C5 as stated: with malformed configuration bytes Initialize fails with the
\* configuration error and has assigned no Controller field and touched
\* nothing of the host.
C5_Original ==
    (Returned("Initialize") /\ ~args.configBytes.ok) =>
        /\ ret.err = Err("ConfigError")
        /\ c = old.c
        /\ host = old.host

\* C5: with malformed configuration bytes, once newMetrics(gatherer) has
\* succeeded, Initialize returns the configuration error and nothing after the
\* parse has run: the log level, the genesis and db fields and the open
\* storage handles are as they were and no handler was created; the fields
\* inner, snowCtx, stateManager and metrics are assigned and config is nil.
C5_ConfigFailure ==
    (Returned("Initialize") /\ ~args.configBytes.ok /\ ret.err # Err("MetricsError")) =>
        /\ ret.err = Err("ConfigError")
        /\ trace = <<"newMetrics", "config.New">>
        /\ host.logLevel = old.host.logLevel
        /\ host.handles = old.host.handles
        /\ c.genesis = old.c.genesis
        /\ c.db = old.c.db
        /\ apis = Nil
        /\ c.inner = args.inner /\ c.snowCtx = args.snowCtx
        /\ c.stateManager # Nil /\ c.metrics # Nil
        /\ c.config = Nil

C5_Witness ==
    /\ Returned("Initialize")
    /\ ~args.configBytes.ok
    /\ ret.err = Err("ConfigError")
    /\ old.c.inner = Nil
    /\ c.inner # Nil /\ c.metrics # Nil
    /\ host.logLevel = "info"

\* C6: when the genesis or upgrade bytes fail to parse, Initialize returns the
\* genesis error wrapped as "unable to read genesis" without having opened
\* storage, created a handler or chosen a builder or gossiper; in every
\* Initialize, storage open, handler creation and mode selection come only
\* after a successful genesis parse.
C6_GenesisFailure ==
    /\ (Returned("Initialize") /\ "genesis.New" \in Range(trace)
            /\ ~(args.genesisBytes.ok /\ args.upgradeBytes.ok)) =>
          /\ ret.err = [msg |-> "unable to read genesis", wraps |-> "GenesisError"]
          /\ \A k \in 1..7 : ret.out[k] = Nil
          /\ trace = <<"newMetrics", "config.New", "SetLevel", "genesis.New">>
          /\ host.handles = old.host.handles
          /\ c.db = old.c.db
          /\ apis = Nil
    /\ (args # Nil /\ args.op = "Initialize") =>
          \A k \in 1..Len(trace) :
             trace[k] \in {"hstorage.New", "NewJSONRPCHandler", "NewManual",
                           "NewTime", "NewProposer"} =>
                /\ \E j \in 1..(k - 1) : trace[j] = "genesis.New"
                /\ args.genesisBytes.ok /\ args.upgradeBytes.ok
                /\ c.genesis # Nil

C6_Witness ==
    /\ Returned("Initialize")
    /\ args.genesisBytes.ok /\ ~args.upgradeBytes.ok
    /\ ret.err.msg = "unable to read genesis"
    /\ c.db = Nil /\ host.handles = {}

RECURSIVE SumTo(_, _)
SumTo(f, n) == IF n = 0 THEN 0 ELSE f[n] + SumTo(f, n - 1)

TransferActions(tx) == Cardinality({ j \in 1..Len(tx.Actions) : tx.Actions[j] = "Transfer" })

\* C7 as stated: a successful Accepted(B) raises the transfer counter by the
\* number of successful transactions of B whose action list contains a
\* transfer action.
C7_Original ==
    AcceptedOk =>
        c.metrics.transfer - old.c.metrics.transfer =
            Cardinality({ k \in 1..Len(args.blk.Txs) :
                            /\ args.blk.results[k].Success
                            /\ "Transfer" \in Range(args.blk.Txs[k].Actions) })

\* C7: a successful Accepted(B) raises the transfer counter by the total number
\* of transfer actions in the action lists of B's successful transactions.
C7_TransferCounter ==
    AcceptedOk =>
        LET blk == args.blk
            N == Len(blk.Txs)
            perTx == [k \in 1..N |-> IF blk.results[k].Success
                                     THEN TransferActions(blk.Txs[k]) ELSE 0]
        IN  c.metrics.transfer - old.c.metrics.transfer = SumTo(perTx, N)

C7_Witness ==
    /\ AcceptedOk
    /\ Len(args.blk.Txs) = 2
    /\ args.blk.results[1].Success /\ TransferActions(args.blk.Txs[1]) = 2
    /\ ~args.blk.results[2].Success /\ TransferActions(args.blk.Txs[2]) = 1
    /\ c.metrics.transfer = old.c.metrics.transfer + 2

\* C8: Shutdown returns nil in every state it is called in and leaves every
\* Controller field (the metrics among them), the host state (the open storage
\* handles among them) and the storage contents as they were.
C8_ShutdownNoOp ==
    Returned("Shutdown") =>
        /\ ret.err = Nil
        /\ c = old.c
        /\ host = old.host
        /\ storage = old.storage

C8_Witness ==
    /\ Returned("Shutdown")
    /\ ready
    /\ c.db # Nil /\ host.handles # {}
    /\ Stored(storage) # {}
    /\ c.metrics.transfer > 0

\* C9: once Initialize has succeeded, a Rules(t) call returns, for every t,
\* the rule set made of the Controller's genesis and of the network and chain
\* ids of its chain context, and changes nothing: no Controller field, no
\* storage content, no metric, no host state.
C9_RulesProjection ==
    [][ (rulesRet' # Nil /\ ready) =>
           /\ ~rulesRet'.panic
           /\ c.genesis # Nil
           /\ rulesRet'.rules = [genesis |-> c.genesis,
                                 NetworkID |-> c.snowCtx.NetworkID,
                                 ChainID |-> c.snowCtx.ChainID]
           /\ UNCHANGED <<pc, c, host, registry, storage, batch, i, args, ret,
                          old, trace, apis, ready>> ]_vars

C9_Witness ==
    /\ rulesRet # Nil /\ ready
    /\ rulesRet.rules.NetworkID = 1 /\ rulesRet.rules.ChainID = 2
    /\ c.metrics.transfer > 0
    /\ Stored(storage) # {}

\* C10 as stated: once a record is in storage its value never changes and it
\* is never deleted, whatever Accepted calls follow.
C10_Original ==
    [][ \A id \in TxIDs : storage[id] # Nil => storage'[id] = storage[id] ]_vars

\* C10: a stored record is never deleted, and its value changes only when an
\* Accepted call with StoreTransactions on commits a block that carries the
\* same transaction id, which replaces it by the record of that block.
C10_OverwriteOnly ==
    [][ \A id \in TxIDs : storage[id] # Nil =>
           /\ storage'[id] # Nil
           /\ storage'[id] # storage[id] =>
                 /\ pc = "acc_loop" /\ pc' = "acc_defer"
                 /\ ret'.err = Nil
                 /\ c.config.StoreTransactions
                 /\ \E k \in 1..Len(args.blk.Txs) :
                        /\ args.blk.Txs[k].id = id
                        /\ storage'[id] = RecordOf(args.blk, k) ]_vars

C10_Witness ==
    /\ AcceptedOk
    /\ \E id \in BlockIds(args.blk) :
          /\ old.storage[id] # Nil
          /\ storage[id] # old.storage[id]

\* C11: a Rules call made at any point after Initialize has been entered,
\* whatever the host thread is doing (inside Initialize, inside Accepted, in
\* Shutdown, idle), does not panic and never sees an unset genesis or chain
\* context: it returns the rule set of the Controller's genesis with the
\* network and chain ids of its chain context.
C11_RulesConcurrent ==
    (rulesRet # Nil /\ c.inner # Nil) =>
        /\ ~rulesRet.panic
        /\ rulesRet.rules.genesis # Nil
        /\ rulesRet.rules.NetworkID = c.snowCtx.NetworkID
        /\ rulesRet.rules.ChainID = c.snowCtx.ChainID

\* C12: the write batch belongs to one Accepted call.  The call takes a fresh
\* batch before it touches a transaction, while it runs the batch holds only
\* records of the block of this call (the record of transaction k at position
\* k), the deferred Reset is the last operation of the call on every way out
\* (staging error, commit error, success, panic), and outside a running
\* Accepted the batch is empty, so nothing staged by one call is there for a
\* later call to commit.
C12_BatchScoped ==
    /\ pc \in {"acc_loop", "acc_defer"} =>
          /\ trace[1] = "NewBatch"
          /\ Len(batch) < i
          /\ \A k \in 1..Len(batch) :
                batch[k] = [key |-> args.blk.Txs[k].id, value |-> RecordOf(args.blk, k)]
    /\ pc \notin {"acc_loop", "acc_defer"} => batch = << >>
    /\ (args # Nil /\ args.op = "Accepted" /\ pc \in {"return", "panicked"}) =>
          /\ trace[Len(trace)] = "Reset"
          /\ Cardinality({ k \in 1..Len(trace) : trace[k] \in {"NewBatch", "Reset"} }) = 2

C12_Witness ==
    /\ pc = "panicked"
    /\ args # Nil /\ args.op = "Accepted"
    /\ ret.panic
    /\ trace = <<"NewBatch", "StoreTransaction", "Reset">>
    /\ Stored(old.storage) # {}
    /\ batch = << >>

\* C13 as stated: an Initialize that fails before the storage open has left the
\* outside world untouched; here the part of it that concerns the host's log
\* level and the open storage handles.
C13_Original ==
    (Returned("Initialize") /\ "hstorage.New" \notin Range(trace)) =>
        /\ host.logLevel = old.host.logLevel
        /\ host.handles = old.host.handles

\* C13: in every Initialize the storage open is the first acquisition of an
\* external resource: it comes right after newMetrics, config.New, SetLevel and
\* genesis.New, in this order, no handler, builder or gossiper is created
\* before it, and until it has run the open handles and the db field are as
\* they were.  The call of newMetrics on the host's gatherer and the change of
\* the host's log level come before it: an Initialize that fails at the
\* genesis parse has already set the log level of the configuration.
C13_StorageFirstAcquisition ==
    (args # Nil /\ args.op = "Initialize") =>
        /\ \A k \in 1..Len(trace) :
              trace[k] \in {"NewJSONRPCHandler", "NewManual", "NewTime", "NewProposer"} =>
                 \E j \in 1..(k - 1) : trace[j] = "hstorage.New"
        /\ "hstorage.New" \in Range(trace) =>
              /\ Len(trace) >= 5
              /\ SubSeq(trace, 1, 5) = <<"newMetrics", "config.New", "SetLevel",
                                         "genesis.New", "hstorage.New">>
        /\ "hstorage.New" \notin Range(trace) =>
              /\ host.handles = old.host.handles
              /\ c.db = old.c.db
              /\ apis = Nil
        /\ "SetLevel" \in Range(trace) =>
              /\ trace[1] = "newMetrics"
              /\ host.logLevel = c.config.LogLevel

C13_Witness ==
    /\ Returned("Initialize")
    /\ ret.err.msg = "unable to read genesis"
    /\ trace = <<"newMetrics", "config.New", "SetLevel", "genesis.New">>
    /\ old.host.logLevel = "info" /\ host.logLevel = "debug"
    /\ old.host.handles = {} /\ host.handles = {}

\* C14 as stated: across any sequence of calls the transfer counter of the
\* Controller never decreases.
C14_Original ==
    [][ (c.metrics # Nil /\ c'.metrics # Nil) =>
            c'.metrics.transfer >= c.metrics.transfer ]_vars

\* C14: the metrics of the Controller change in two kinds of steps only.
\* newMetrics in Initialize installs a new metrics object, whose transfer
\* counter starts at zero (or none, when it fails).  An iteration of Accepted
\* on a successful transaction with at least one transfer action raises the
\* counter by the number of its transfer actions.  No step of Rules,
\* StateManager, Shutdown or of the rest of Initialize and Accepted changes
\* it; an iteration on a failed transaction, or on a successful one with only
\* unrecognized action kinds, leaves it unchanged and goes on to the next
\* transaction without an error.
C14_CounterSteps ==
    [][ /\ c'.metrics # c.metrics =>
              \/ /\ pc = "init_metrics"
                 /\ c'.metrics \in {Nil, [transfer |-> 0]}
              \/ /\ pc = "acc_loop" /\ pc' = "acc_loop" /\ i' = i + 1
                 /\ args.blk.results[i].Success
                 /\ TransferActions(args.blk.Txs[i]) > 0
                 /\ c'.metrics.transfer =
                        c.metrics.transfer + TransferActions(args.blk.Txs[i])
        /\ (pc = "acc_loop" /\ i' = i + 1
               /\ (~args.blk.results[i].Success \/ TransferActions(args.blk.Txs[i]) = 0)) =>
              /\ c'.metrics = c.metrics
              /\ pc' = "acc_loop" /\ ret' = Nil ]_vars

C14_Witness ==
    /\ AcceptedOk
    /\ Len(args.blk.Txs) = 2 /\ Len(args.blk.results) = 2
    /\ ~args.blk.results[1].Success /\ TransferActions(args.blk.Txs[1]) = 2
    /\ args.blk.results[2].Success /\ args.blk.Txs[2].Actions = <<"Other">>
    /\ old.c.metrics.transfer > 0
    /\ c.metrics.transfer = old.c.metrics.transfer

\* The transfer increments Accepted makes for the first n transactions of blk.
IncsUpTo(blk, n) ==
    SumTo([k \in 1..Len(blk.Txs) |->
              IF k <= Len(blk.results) /\ blk.results[k].Success
              THEN TransferActions(blk.Txs[k]) ELSE 0], n)

\* C15: the transfer counter is outside the atomic storage write.  When
\* Accepted(B) returns an error, from staging at index i or from the commit
\* after all N transactions, storage is as it was before the call while the
\* counter has kept the increments of the successful transactions processed
\* before the failure (those before index i, all N for a commit failure).
\* Storage is never ahead of the counter: whenever the call has changed
\* storage, the counter holds the increments of the whole block.
C15_MetricsOutsideAtomic ==
    /\ (Returned("Accepted") /\ ret.err # Nil) =>
          /\ storage = old.storage
          /\ ret.err = Err("CommitError") => i = Len(args.blk.Txs) + 1
          /\ c.metrics.transfer =
                old.c.metrics.transfer + IncsUpTo(args.blk, i - 1)
    /\ (args # Nil /\ args.op = "Accepted" /\ storage # old.storage) =>
          c.metrics.transfer =
              old.c.metrics.transfer + IncsUpTo(args.blk, Len(args.blk.Txs))

C15_Witness ==
    /\ Returned("Accepted")
    /\ ret.err = Err("StageError")
    /\ i = 2
    /\ args.blk.results[2].Success /\ TransferActions(args.blk.Txs[2]) = 1
    /\ c.metrics.transfer = old.c.metrics.transfer + 1
    /\ storage = old.storage
    /\ old.storage[args.blk.Txs[1].id] = Nil

\* How many times the running call attempted the operation op.
Attempts(op) == Cardinality({ k \in 1..Len(trace) : trace[k] = op })

\* C16: Accepted hands storage errors to its caller and never retries.  An
\* Accepted call attempts the commit at most once.  When it ends with the
\* staging error of index i, that error is returned as it is, staging was
\* attempted for the transactions up to i and for none after it, only the
\* transactions before i were counted, and the commit was not attempted.  When
\* the commit fails its error is returned as it is, after one attempt.  The
\* call returns nil only after a commit that succeeded, which is its last
\* operation before the deferred Reset.
C16_ErrorPropagation ==
    (args # Nil /\ args.op = "Accepted") =>
        /\ Attempts("Write") <= 1
        /\ (ret # Nil /\ ret.err = Err("StageError")) =>
              /\ c.config.StoreTransactions
              /\ i <= Len(args.blk.Txs)
              /\ Attempts("StoreTransaction") = i
              /\ Attempts("Write") = 0
              /\ c.metrics.transfer = old.c.metrics.transfer + IncsUpTo(args.blk, i - 1)
              /\ storage = old.storage
        /\ (ret # Nil /\ ret.err = Err("CommitError")) =>
              /\ Attempts("Write") = 1
              /\ storage = old.storage
        /\ (ret # Nil /\ ret.err = Nil /\ ~ret.panic) =>
              /\ Attempts("Write") = 1
              /\ \E k \in 1..Len(trace) :
                    /\ trace[k] = "Write"
                    /\ \A j \in (k + 1)..Len(trace) : trace[j] = "Reset"
              /\ c.config.StoreTransactions =>
                    \A k \in 1..Len(args.blk.Txs) :
                        storage[args.blk.Txs[k].id] = RecordOf(args.blk, k)
        /\ ret # Nil =>
              ret.err \in {Nil, Err("StageError"), Err("CommitError")}

C16_Witness ==
    /\ Returned("Accepted")
    /\ ret.err = Err("CommitError")
    /\ trace = <<"NewBatch", "StoreTransaction", "StoreTransaction", "Write", "Reset">>
    /\ storage = old.storage
    /\ Stored(storage) = {}

\* C17: an Accepted call on a block whose number of results differs from its
\* number of transactions, in either direction, ends in a panic, never in a
\* return (of an error or of nil), and storage is as it was before the call.
C17_MismatchFatal ==
    (/\ args # Nil /\ args.op = "Accepted"
     /\ Len(args.blk.results) # Len(args.blk.Txs)
     /\ pc \in {"return", "panicked"}) =>
        /\ pc = "panicked"
        /\ ret.panic
        /\ storage = old.storage

\* C18 as stated: once Initialize has succeeded no later call changes the
\* stored configuration or the genesis snapshot (a record in storage shows
\* that an Initialize succeeded and an Accepted ran before this step).
C18_Original ==
    [][ (c.config # Nil /\ Stored(storage) # {}) =>
            /\ c'.config = c.config
            /\ c'.genesis = c.genesis ]_vars

\* C18: the stored configuration changes only in the configuration step of
\* an Initialize call, which sets it to what config.New makes of the bytes of
\* that call, and the genesis snapshot only in the genesis step of an
\* Initialize call, which sets it to what genesis.New makes of its bytes; no
\* step of Rules, StateManager, Accepted or Shutdown changes either.  A
\* further Initialize does load them again, and the builder and gossiper it
\* returns follow the TestMode flag of the configuration it has just stored.
C18_ConfigSteps ==
    [][ /\ c'.config # c.config =>
              /\ pc = "init_config"
              /\ c'.config = ConfigNew(args.configBytes).cfg
        /\ c'.genesis # c.genesis =>
              /\ pc = "init_genesis"
              /\ c'.genesis = GenesisNew(args.genesisBytes, args.upgradeBytes).genesis
        /\ (pc' = "return" /\ args'.op = "Initialize" /\ ret'.err = Nil) =>
              /\ c'.config = ConfigNew(args'.configBytes).cfg
              /\ ret'.out[2].builder = (IF c'.config.TestMode THEN "Manual" ELSE "Time")
              /\ ret'.out[3].gossiper = (IF c'.config.TestMode THEN "Manual" ELSE "Proposer") ]_vars

C18_Witness ==
    /\ Returned("Initialize") /\ ret.err = Nil
    /\ Stored(storage) # {}
    /\ old.c.config # Nil /\ old.c.config.StoreTransactions /\ old.c.config.TestMode
    /\ ~c.config.StoreTransactions /\ ~c.config.TestMode
    /\ ret.out[3].gossiper = "Proposer"

\* C19: Initialize cleans nothing up when it fails late.  When the creation of
\* the JSON-RPC handler or, outside test mode, of the proposer gossiper fails,
\* Initialize returns seven nil outputs with the error; the storage handle it
\* opened is still open and still assigned to the db field, and the inner VM,
\* chain context, metrics, configuration and genesis it assigned are still in
\* the Controller, so the Controller is not in the state it was constructed in.
C19_NoCleanup ==
    (Returned("Initialize")
        /\ ret.err \in {Err("HandlerRegistrationError"), Err("ProposerError")}) =>
        /\ \A k \in 1..7 : ret.out[k] = Nil
        /\ "hstorage.New" \in Range(trace)
        /\ c.db = [dir |-> args.snowCtx.ChainDataDir, name |-> "db"]
        /\ args.snowCtx.ChainDataDir \in host.handles
        /\ c.inner = args.inner /\ c.snowCtx = args.snowCtx
        /\ c.metrics # Nil
        /\ c.config # Nil /\ c.config = ConfigNew(args.configBytes).cfg
        /\ c.genesis # Nil
        /\ c.genesis = GenesisNew(args.genesisBytes, args.upgradeBytes).genesis
        /\ ret.err = Err("HandlerRegistrationError") =>
              trace[Len(trace)] = "NewJSONRPCHandler"
        /\ ret.err = Err("ProposerError") =>
              /\ ~c.config.TestMode
              /\ trace[Len(trace)] = "NewProposer"
        /\ ~ready

C19_Witness ==
    /\ Returned("Initialize")
    /\ ret.err = Err("HandlerRegistrationError")
    /\ old.c.db = Nil /\ old.c.config = Nil /\ old.c.genesis = Nil /\ old.c.metrics = Nil
    /\ old.host.handles = {}
    /\ c.db # Nil /\ c.config # Nil /\ c.genesis # Nil /\ c.metrics # Nil
    /\ host.handles = {"chainData"}

====
